---- MODULE Spec2Model ----
(***************************************************************************)
(* Model of the clutch_factor pipeline:                                    *)
(*   events_raw.csv --init_db.py--> clutch.db --process_clutch.py-->       *)
(*   clutch_summary.csv + table clutch_summary.                            *)
(* Text cells that the program only copies or compares (league and team    *)
(* names, event type and detail) are TLA+ strings.  Player names, which    *)
(* the program rewrites with a regular expression, are sequences of        *)
(* one-character strings.  Numeric cells are integers; an empty cell or an *)
(* SQL NULL is NULL.                                                       *)
(***************************************************************************)
EXTENDS Integers, Sequences, FiniteSets, TLC

VARIABLES
    events_csv,      \* rows of events_raw.csv
    summary_csv,     \* rows of clutch_summary.csv
    leagues,         \* table leagues: set of [id, name]
    teams,           \* table teams: set of [id, name]
    players,         \* table players: set of [id, name]
    events,          \* table events: sequence of rows in insertion order
    clutch_summary,  \* table clutch_summary: sequence of rows in insertion order
    pc,              \* which script ran last and where it stands
    row_idx,         \* load_events: index of the next CSV row to read
    error,           \* the exception that ended the last script, or "none"
    fetch            \* fetch_clutch_data.py: the locals of main and where it stands

vars == <<events_csv, summary_csv, leagues, teams, players, events,
          clutch_summary, pc, row_idx, error, fetch>>

-----------------------------------------------------------------------------
(* Bounds of the model *)

\* longest events_raw.csv of the main specification
MaxEvents == 2
\* longest raw player name of the name-cleaning specification
MaxNameLen == 3
\* number of fixtures the API lists for one league and season
MaxFixtures == 2
\* number of (season, league) iterations of the loops of fetch_clutch_data.main
\* that are followed
MaxUnits == 2

-----------------------------------------------------------------------------
(* Values *)

\* None / SQL NULL / an empty numeric CSV cell
NULL == -1

\* a.name of a LEFT JOIN that found no row (never equal to a stored name,
\* whose elements are single characters)
NoName == <<"None">>

\* fetch_clutch_data.py is not running and has not run
FetchIdle ==
    [pc          |-> "idle",
     use_async   |-> FALSE,
     unit        |-> 0,
     fixture_ids |-> <<>>,
     idx         |-> 0,
     tasks       |-> <<>>,
     events      |-> <<>>,
     all_events  |-> <<>>,
     failed      |-> {},
     error       |-> "none"]

\* the threshold of the WHERE clause
ClutchMinute == 76

LEAGUE_IDS ==
    [n \in {"Premier League", "La Liga", "Ligue 1", "Bundesliga", "Serie A"} |->
        CASE n = "Premier League" -> 39
          [] n = "La Liga"        -> 140
          [] n = "Ligue 1"        -> 61
          [] n = "Bundesliga"     -> 78
          [] n = "Serie A"        -> 135]

\* LEAGUE_IDS.get(league_name)
LeagueIdsGet(name) == IF name \in DOMAIN LEAGUE_IDS THEN LEAGUE_IDS[name] ELSE NULL

Digits == {"7", "9"}
Whitespace == {" "}
\* the class [\s.-] of the pattern
Separators == Whitespace \cup {".", "-"}

-----------------------------------------------------------------------------
(* Sequence helpers *)

Range(s) == {s[i] : i \in DOMAIN s}

SeqsUpTo(S, n) == UNION {[1..k -> S] : k \in 0..n}

RECURSIVE DropWhile(_, _)
DropWhile(s, S) ==
    IF s # <<>> /\ Head(s) \in S THEN DropWhile(Tail(s), S) ELSE s

RECURSIVE DropWhileEnd(_, _)
DropWhileEnd(s, S) ==
    IF s # <<>> /\ s[Len(s)] \in S
    THEN DropWhileEnd(SubSeq(s, 1, Len(s) - 1), S)
    ELSE s

RECURSIVE Gcd(_, _)
Gcd(a, b) == IF b = 0 THEN a ELSE Gcd(b, a % b)

-----------------------------------------------------------------------------
(* Player-name cleaning, process_clutch.py lines 88-92 *)

\* .str.replace(r"^\d+[\s.-]*", "", regex=True): one or more digits at the
\* start of the string and the separators that follow them are removed; a
\* name that does not start with a digit is left as it is.
ReplaceSquadNumber(name) ==
    IF name # <<>> /\ Head(name) \in Digits
    THEN DropWhile(DropWhile(name, Digits), Separators)
    ELSE name

\* .str.strip()
Strip(name) == DropWhileEnd(DropWhile(name, Whitespace), Whitespace)

CleanName(name) == Strip(ReplaceSquadNumber(name))

-----------------------------------------------------------------------------
(* init_db.py: load_events *)

\* league_id = row.get("league_id") or LEAGUE_IDS.get(league_name)
ResolveLeagueId(row) ==
    IF row.league_id # NULL THEN row.league_id ELSE LeagueIdsGet(row.league)

\* a faulty variant of RaisesUnknownLeague: the row is taken with no league id
NeverRaises(row) == FALSE

\* if league_id is None: raise ValueError(f"Unknown league id for ...")
RaisesUnknownLeague(row) == ResolveLeagueId(row) = NULL

\* INSERT OR IGNORE INTO leagues(id, name): id is the primary key, name UNIQUE
InsertLeague(tbl, id, name) ==
    IF \E r \in tbl : r.id = id \/ r.name = name
    THEN tbl
    ELSE tbl \cup {[id |-> id, name |-> name]}

\* INSERT OR IGNORE INTO teams / players: id is the primary key
InsertById(tbl, id, name) ==
    IF \E r \in tbl : r.id = id
    THEN tbl
    ELSE tbl \cup {[id |-> id, name |-> name]}

\* a faulty variant of InsertPlayer: a player without a name is stored too
InsertPlayerUnnamed(tbl, id, name) ==
    IF id # NULL THEN InsertById(tbl, id, name) ELSE tbl

\* if player_id and player_name: INSERT OR IGNORE INTO players
InsertPlayer(tbl, id, name) ==
    IF id # NULL /\ name # <<>> THEN InsertById(tbl, id, name) ELSE tbl

\* the tuple of INSERT INTO events
EventRow(row, league_id) ==
    [type         |-> row.type,
     detail       |-> row.detail,
     fixture_id   |-> row.fixture_id,
     league_id    |-> league_id,
     season       |-> row.season,
     time_elapsed |-> row.time_elapsed,
     team_id      |-> row.team_id,
     player_id    |-> row.player_id,
     assist_id    |-> row.assist_id]

-----------------------------------------------------------------------------
(* The CSV files the scripts are given *)

\* the name each player id carries in the API payload; player 2's comes with
\* a squad number
NameOf(id) ==
    CASE id = 1 -> <<"A">>
      [] id = 2 -> <<"9", ".", " ", "B">>
      [] OTHER  -> <<>>

BaseRow ==
    [type         |-> "Goal",
     detail       |-> "Normal Goal",
     fixture_id   |-> 1,
     league       |-> "Premier League",
     league_id    |-> 39,
     season       |-> 2023,
     time_elapsed |-> ClutchMinute,
     team_id      |-> 1,
     team_name    |-> "X",
     player_id    |-> 1,
     player_name  |-> NameOf(1),
     assist_id    |-> NULL,
     assist_name  |-> <<>>]

Kinds ==
    {<<"Goal", "Normal Goal">>, <<"Goal", "Penalty">>, <<"Goal", "Own Goal">>,
     <<"Goal", "Missed Penalty">>, <<"Card", "Yellow Card">>}

Times == {ClutchMinute - 1, ClutchMinute}

\* rows that differ in type, detail and minute
KindTimeRows ==
    {[BaseRow EXCEPT !.type = k[1], !.detail = k[2], !.time_elapsed = t] :
        k \in Kinds, t \in Times}

\* goals in the clutch window that differ in fixture, scorer and assister
PlayerRows ==
    {[BaseRow EXCEPT !.fixture_id = f,
                     !.player_id = p, !.player_name = NameOf(p),
                     !.assist_id = a, !.assist_name = NameOf(a)] :
        f \in 1..2, p \in {NULL, 1, 2}, a \in {NULL, 1, 2}}

\* the older CSV shape without a league_id column: a league of the lookup
\* table, and one that is not in it
LeagueRows ==
    {[BaseRow EXCEPT !.league = "La Liga", !.league_id = NULL],
     [BaseRow EXCEPT !.league = "MLS", !.league_id = NULL]}

\* the same scorer in another team and in another season; a row without a
\* minute; a scorer and an assister whose name cell is empty
GroupRows ==
    {[BaseRow EXCEPT !.team_id = 2, !.team_name = "Y"],
     [BaseRow EXCEPT !.season = 2022],
     [BaseRow EXCEPT !.time_elapsed = NULL],
     [BaseRow EXCEPT !.player_id = 2],
     [BaseRow EXCEPT !.player_id = 2, !.player_name = <<>>],
     [BaseRow EXCEPT !.assist_id = 2]}

CsvRows == KindTimeRows \cup PlayerRows \cup LeagueRows \cup GroupRows

\* a clutch_summary.csv left by an earlier version of the aggregation, whose
\* score does not follow today's weights
LegacySummaryRow ==
    [player_id |-> 1, player_name |-> <<"7", " ", "A">>, team_id |-> 1,
     team_name |-> "X", league_id |-> 39, league |-> "Premier League",
     year |-> 2021, Clutch_Matches |-> 2, Clutch_Goal |-> 1,
     Clutch_Assist |-> 0, Clutch_Score |-> 5,
     Score_per_Match |-> [num |-> 5, den |-> 2]]

SummaryCsvs == {<<>>, <<LegacySummaryRow>>}

-----------------------------------------------------------------------------
(* init_db.py *)

IdlePcs == {"start", "init_done", "init_failed", "process_done"}

Init ==
    /\ events_csv \in SeqsUpTo(CsvRows, MaxEvents)
    /\ summary_csv \in SummaryCsvs
    /\ leagues = {}
    /\ teams = {}
    /\ players = {}
    /\ events = <<>>
    /\ clutch_summary = <<>>
    /\ pc = "start"
    /\ row_idx = 1
    /\ error = "none"
    /\ fetch = FetchIdle

\* main, lines 225-229: the old database is unlinked and the empty tables are
\* created; load_events opens the CSV
InitDbMain ==
    /\ pc \in IdlePcs
    /\ leagues' = {}
    /\ teams' = {}
    /\ players' = {}
    /\ events' = <<>>
    /\ clutch_summary' = <<>>
    /\ pc' = "load_events"
    /\ row_idx' = 1
    /\ error' = "none"
    /\ UNCHANGED <<fetch, events_csv, summary_csv>>

\* one iteration of the loop of load_events.  The ValueError ends the script
\* before conn.commit(): the rows inserted so far are rolled back.
LoadEventsRow ==
    /\ pc = "load_events"
    /\ row_idx <= Len(events_csv)
    /\ LET row == events_csv[row_idx]
           league_id == ResolveLeagueId(row)
       IN  IF RaisesUnknownLeague(row)
           THEN /\ error' = "Unknown league id"
                /\ pc' = "init_failed"
                /\ leagues' = {}
                /\ teams' = {}
                /\ players' = {}
                /\ events' = <<>>
                /\ UNCHANGED row_idx
           ELSE /\ leagues' = InsertLeague(leagues, league_id, row.league)
                /\ teams' = InsertById(teams, row.team_id, row.team_name)
                /\ players' = InsertPlayer(
                                  InsertPlayer(players, row.player_id, row.player_name),
                                  row.assist_id, row.assist_name)
                /\ events' = Append(events, EventRow(row, league_id))
                /\ row_idx' = row_idx + 1
                /\ UNCHANGED <<pc, error>>
    /\ UNCHANGED <<fetch, events_csv, summary_csv, clutch_summary>>

\* the loop of load_events ends and conn.commit() runs
LoadEventsCommit ==
    /\ pc = "load_events"
    /\ row_idx > Len(events_csv)
    /\ pc' = "load_summary"
    /\ UNCHANGED <<fetch, events_csv, summary_csv, leagues, teams, players, events,
                   clutch_summary, row_idx, error>>

\* the tuple load_summary builds from one row of clutch_summary.csv
SummaryTuple(r) ==
    [player_id       |-> r.player_id,
     player_name     |-> r.player_name,
     team_id         |-> r.team_id,
     team_name       |-> r.team_name,
     league_id       |-> r.league_id,
     league          |-> r.league,
     year            |-> r.year,
     clutch_matches  |-> r.Clutch_Matches,
     clutch_goal     |-> r.Clutch_Goal,
     clutch_assist   |-> r.Clutch_Assist,
     clutch_score    |-> r.Clutch_Score,
     score_per_match |-> r.Score_per_Match]

\* load_summary: every row of clutch_summary.csv is appended to the table
LoadSummary ==
    /\ pc = "load_summary"
    /\ clutch_summary' =
           clutch_summary \o [i \in 1..Len(summary_csv) |-> SummaryTuple(summary_csv[i])]
    /\ pc' = "init_done"
    /\ UNCHANGED <<fetch, events_csv, summary_csv, leagues, teams, players, events,
                   row_idx, error>>

-----------------------------------------------------------------------------
(* process_clutch.py: load_clutch_events *)

Ids(tbl) == {r.id : r \in tbl}

\* the name column of the row of tbl with this primary key
NameIn(tbl, id) == (CHOOSE r \in tbl : r.id = id).name

GoalDetails == {"Normal Goal", "Penalty", "Own Goal"}

\* a faulty variant of WhereClause: the window starts one minute early
WhereClauseFrom75(e) ==
    /\ e.type = "Goal"
    /\ e.detail \in GoalDetails
    /\ e.time_elapsed # NULL
    /\ e.time_elapsed >= ClutchMinute - 1

\* WHERE e.type = 'Goal' AND e.detail IN (...) AND e.time_elapsed >= 76;
\* a NULL time_elapsed compares as unknown and the row is not selected
WhereClause(e) ==
    /\ e.type = "Goal"
    /\ e.detail \in GoalDetails
    /\ e.time_elapsed # NULL
    /\ e.time_elapsed >= ClutchMinute

\* the three inner JOINs: the event's league, team and player rows exist
InnerJoins(lg, tm, pl, e) ==
    /\ e.league_id \in Ids(lg)
    /\ e.team_id \in Ids(tm)
    /\ e.player_id \in Ids(pl)

\* one row of the result; the LEFT JOIN gives NULLs when no player has assist_id
SelectRow(lg, tm, pl, e) ==
    [fixture_id   |-> e.fixture_id,
     league_id    |-> e.league_id,
     league       |-> NameIn(lg, e.league_id),
     season       |-> e.season,
     team_id      |-> e.team_id,
     team_name    |-> NameIn(tm, e.team_id),
     player_id    |-> e.player_id,
     player_name  |-> NameIn(pl, e.player_id),
     time_elapsed |-> e.time_elapsed,
     assist_id    |-> IF e.assist_id \in Ids(pl) THEN e.assist_id ELSE NULL,
     assist_name  |-> IF e.assist_id \in Ids(pl) THEN NameIn(pl, e.assist_id) ELSE NoName]

LoadClutchEvents(lg, tm, pl, ev) ==
    LET kept == SelectSeq(ev, LAMBDA e : InnerJoins(lg, tm, pl, e) /\ WhereClause(e))
    IN  [i \in 1..Len(kept) |-> SelectRow(lg, tm, pl, kept[i])]

-----------------------------------------------------------------------------
(* process_clutch.py: main *)

\* lines 50-63: one contribution to the scorer of every selected event
Goals(df) ==
    [i \in 1..Len(df) |->
        [player_id     |-> df[i].player_id,
         player_name   |-> df[i].player_name,
         team_id       |-> df[i].team_id,
         team_name     |-> df[i].team_name,
         league_id     |-> df[i].league_id,
         league        |-> df[i].league,
         season        |-> df[i].season,
         fixture_id    |-> df[i].fixture_id,
         Clutch_Goal   |-> 1,
         Clutch_Assist |-> 0]]

\* a faulty variant of Assists: the assist goes to the scorer's columns (the
\* rename of assist_id / assist_name left out)
AssistsToScorer(df) ==
    LET with == SelectSeq(df, LAMBDA r : r.assist_name # NoName)
    IN  [i \in 1..Len(with) |->
            [player_id     |-> with[i].player_id,
             player_name   |-> with[i].player_name,
             team_id       |-> with[i].team_id,
             team_name     |-> with[i].team_name,
             league_id     |-> with[i].league_id,
             league        |-> with[i].league,
             season        |-> with[i].season,
             fixture_id    |-> with[i].fixture_id,
             Clutch_Goal   |-> 0,
             Clutch_Assist |-> 1]]

\* lines 66-83: one contribution to the assister of every selected event whose
\* assist_name is not null, under the event's team, league, season and fixture
Assists(df) ==
    LET with == SelectSeq(df, LAMBDA r : r.assist_name # NoName)
    IN  [i \in 1..Len(with) |->
            [player_id     |-> with[i].assist_id,
             player_name   |-> with[i].assist_name,
             team_id       |-> with[i].team_id,
             team_name     |-> with[i].team_name,
             league_id     |-> with[i].league_id,
             league        |-> with[i].league,
             season        |-> with[i].season,
             fixture_id    |-> with[i].fixture_id,
             Clutch_Goal   |-> 0,
             Clutch_Assist |-> 1]]

\* lines 85-92: pd.concat, then the player_name column is cleaned
ClutchDf(df) ==
    LET both == Goals(df) \o Assists(df)
    IN  [i \in 1..Len(both) |->
            [both[i] EXCEPT !.player_name = CleanName(both[i].player_name)]]

\* the seven groupby columns of a contribution
GroupKey(c) ==
    [player_id   |-> c.player_id,
     player_name |-> c.player_name,
     team_id     |-> c.team_id,
     team_name   |-> c.team_name,
     league_id   |-> c.league_id,
     league      |-> c.league,
     season      |-> c.season]

\* groupby sorts the group keys.  A name column is a function of the id column
\* before it, so the order is that of the four numeric columns.
KeyBefore(a, b) ==
    \/ a.player_id < b.player_id
    \/ /\ a.player_id = b.player_id
       /\ \/ a.team_id < b.team_id
          \/ /\ a.team_id = b.team_id
             /\ \/ a.league_id < b.league_id
                \/ /\ a.league_id = b.league_id
                   /\ a.season < b.season

RECURSIVE SortedKeys(_)
SortedKeys(K) ==
    IF K = {} THEN <<>>
    ELSE LET first == CHOOSE k \in K : \A o \in K \ {k} : KeyBefore(k, o)
         IN  <<first>> \o SortedKeys(K \ {first})

RECURSIVE Sum(_)
Sum(col) == IF col = <<>> THEN 0 ELSE Head(col) + Sum(Tail(col))

\* a faulty variant of Nunique: the rows of the group are counted
CountRows(col) == Len(col)

\* "fixture_id": "nunique"
Nunique(col) == Cardinality(Range(col))

\* lines 94-115: groupby(...).agg(...).rename(...).reset_index()
GroupByAgg(cdf) ==
    LET keys == SortedKeys({GroupKey(cdf[i]) : i \in 1..Len(cdf)})
    IN  [g \in 1..Len(keys) |->
            LET grp == SelectSeq(cdf, LAMBDA c : GroupKey(c) = keys[g])
            IN  [player_id      |-> keys[g].player_id,
                 player_name    |-> keys[g].player_name,
                 team_id        |-> keys[g].team_id,
                 team_name      |-> keys[g].team_name,
                 league_id      |-> keys[g].league_id,
                 league         |-> keys[g].league,
                 season         |-> keys[g].season,
                 Clutch_Matches |-> Nunique([i \in 1..Len(grp) |-> grp[i].fixture_id]),
                 Clutch_Goal    |-> Sum([i \in 1..Len(grp) |-> grp[i].Clutch_Goal]),
                 Clutch_Assist  |-> Sum([i \in 1..Len(grp) |-> grp[i].Clutch_Assist])]]

\* a faulty variant of ClutchScore: the two weights exchanged
ClutchScoreSwapped(goal, assist) == goal * 2 + assist * 3

\* summary["Clutch_Goal"] * 3 + summary["Clutch_Assist"] * 2
ClutchScore(goal, assist) == goal * 3 + assist * 2

\* the quotient n / d as a fraction in lowest terms; a zero divisor gives the
\* inf or nan of a float division, written with den = 0
Ratio(n, d) ==
    IF d = 0 THEN [num |-> n, den |-> 0]
    ELSE [num |-> n \div Gcd(n, d), den |-> d \div Gcd(n, d)]

\* a faulty variant of ScorePerMatch: the operands exchanged
MatchesPerScore(score, matches) == Ratio(matches, score)

\* summary["Clutch_Score"] / summary["Clutch_Matches"]
ScorePerMatch(score, matches) == Ratio(score, matches)

\* lines 117-119: season renamed to year, the two derived columns added
WithScores(grouped) ==
    [i \in 1..Len(grouped) |->
        LET g == grouped[i]
            score == ClutchScore(g.Clutch_Goal, g.Clutch_Assist)
        IN  [player_id       |-> g.player_id,
             player_name     |-> g.player_name,
             team_id         |-> g.team_id,
             team_name       |-> g.team_name,
             league_id       |-> g.league_id,
             league          |-> g.league,
             year            |-> g.season,
             Clutch_Matches  |-> g.Clutch_Matches,
             Clutch_Goal     |-> g.Clutch_Goal,
             Clutch_Assist   |-> g.Clutch_Assist,
             Clutch_Score    |-> score,
             Score_per_Match |-> ScorePerMatch(score, g.Clutch_Matches)]]

\* the orders of the rows of s that a permutation of 1..Len(s) gives
Reorderings(s) ==
    {[i \in 1..Len(s) |-> s[p[i]]] : p \in Permutations(1..Len(s))}

\* a faulty variant of SortValues: ascending=False left out
SortValuesAscending(summary) ==
    {s \in Reorderings(summary) :
        \A i \in 1..(Len(s) - 1) : s[i].Clutch_Score <= s[i + 1].Clutch_Score}

\* line 120: sort_values("Clutch_Score", ascending=False).  The default sort
\* is not stable, so rows of equal score may come out in any order: every
\* order that is descending in Clutch_Score is a possible result.
SortValues(summary) ==
    {s \in Reorderings(summary) :
        \A i \in 1..(Len(s) - 1) : s[i].Clutch_Score >= s[i + 1].Clutch_Score}

\* the summary frame before it is sorted
Summary(lg, tm, pl, ev) == WithScores(GroupByAgg(ClutchDf(LoadClutchEvents(lg, tm, pl, ev))))

\* a faulty variant of DeleteFromClutchSummary: the old rows stay
KeepClutchSummary(tbl) == tbl

\* line 125: DELETE FROM clutch_summary
DeleteFromClutchSummary(tbl) == <<>>

\* lines 135-148: the tuple inserted for one row of the sorted frame
InsertTuple(row) ==
    [player_id       |-> row.player_id,
     player_name     |-> row.player_name,
     team_id         |-> row.team_id,
     team_name       |-> row.team_name,
     league_id       |-> row.league_id,
     league          |-> row.league,
     year            |-> row.year,
     clutch_matches  |-> row.Clutch_Matches,
     clutch_goal     |-> row.Clutch_Goal,
     clutch_assist   |-> row.Clutch_Assist,
     clutch_score    |-> row.Clutch_Score,
     score_per_match |-> row.Score_per_Match]

\* the states in which clutch.db has its tables
DbPcs == {"init_done", "init_failed", "process_done"}

\* main.  Without the tables (init_db.py never ran) the query fails and
\* nothing is written; otherwise the sorted summary replaces
\* clutch_summary.csv and the rows of the table.
ProcessClutchMain ==
    /\ pc \in IdlePcs
    /\ IF pc \notin DbPcs
       THEN /\ pc' = "start"
            /\ error' = "no such table: events"
            /\ UNCHANGED <<summary_csv, clutch_summary>>
       ELSE \E sorted \in SortValues(Summary(leagues, teams, players, events)) :
            /\ summary_csv' = sorted
            /\ clutch_summary' =
                   DeleteFromClutchSummary(clutch_summary)
                       \o [i \in 1..Len(sorted) |-> InsertTuple(sorted[i])]
            /\ pc' = "process_done"
            /\ error' = "none"
    /\ UNCHANGED <<fetch, events_csv, leagues, teams, players, events, row_idx>>

-----------------------------------------------------------------------------
(* The pipeline on one events_raw.csv *)

Next ==
    \/ InitDbMain
    \/ LoadEventsRow
    \/ LoadEventsCommit
    \/ LoadSummary
    \/ ProcessClutchMain

Spec == Init /\ [][Next]_vars

-----------------------------------------------------------------------------
(* What the claims speak of, stated on the events table *)

TableRows == Range(clutch_summary)

\* the run of process_clutch.py has just written the table from the events
AfterRun == pc = "process_done"

\* a scoring action: type Goal, one of the three goal details
IsGoal(e) == e.type = "Goal" /\ e.detail \in {"Normal Goal", "Penalty", "Own Goal"}

\* the event's scorer is a row of players
ScorerKnown(e) == \E p \in players : p.id = e.player_id

\* the event's assister is a row of players
AssisterKnown(e) == \E p \in players : p.id = e.assist_id

\* a goal of the clutch window with a known scorer
Qualifying(e) == IsGoal(e) /\ e.time_elapsed >= 76 /\ ScorerKnown(e)

SameGroup(e, r) ==
    e.team_id = r.team_id /\ e.league_id = r.league_id /\ e.season = r.year

ScoredBy(e, r) == e.player_id = r.player_id /\ SameGroup(e, r)

AssistedBy(e, r) == e.assist_id = r.player_id /\ SameGroup(e, r)

\* the events table without its i-th row
EventsWithout(i) == SubSeq(events, 1, i - 1) \o SubSeq(events, i + 1, Len(events))

\* the rows a run would write from the event sequence ev
RowsFrom(ev) == {InsertTuple(r) : r \in Range(Summary(leagues, teams, players, ev))}

-----------------------------------------------------------------------------
\* C1: after an aggregation run, the goals, assists and fixtures of every
\* summary row are covered by events of minute 76 or later alone, and taking
\* an event of an earlier minute out of the events table would leave the
\* written rows as they are; taking out a goal (Normal Goal, Penalty or Own
\* Goal) of minute exactly 76 whose scorer is known would change them.
C1_ClutchWindow ==
    AfterRun =>
        /\ \A r \in TableRows :
            LET late == {i \in DOMAIN events : events[i].time_elapsed >= 76}
            IN  /\ r.clutch_goal <= Cardinality({i \in late : ScoredBy(events[i], r)})
                /\ r.clutch_assist <= Cardinality({i \in late : AssistedBy(events[i], r)})
                /\ r.clutch_matches <=
                       Cardinality({events[i].fixture_id :
                           i \in {j \in late : ScoredBy(events[j], r) \/ AssistedBy(events[j], r)}})
        /\ \A i \in DOMAIN events :
            /\ events[i].time_elapsed < 76 => RowsFrom(EventsWithout(i)) = TableRows
            /\ (events[i].time_elapsed = 76 /\ IsGoal(events[i]) /\ ScorerKnown(events[i]))
                   => /\ RowsFrom(EventsWithout(i)) # TableRows
                      /\ \E r \in TableRows : ScoredBy(events[i], r) /\ r.clutch_goal >= 1

\* a goal of minute 75 and a goal of minute 76 were loaded and the run wrote
\* one row with one goal
C1_Witness ==
    /\ AfterRun
    /\ \E i, j \in DOMAIN events :
        /\ IsGoal(events[i]) /\ events[i].time_elapsed = 75 /\ ScorerKnown(events[i])
        /\ IsGoal(events[j]) /\ events[j].time_elapsed = 76 /\ ScorerKnown(events[j])
    /\ Len(clutch_summary) = 1
    /\ clutch_summary[1].clutch_goal = 1

\* the events that a summary row counts: qualifying goals the row's player
\* scored, or assisted as a known assister, in the row's team, league and season
ContributingTo(r) ==
    {i \in DOMAIN events :
        /\ Qualifying(events[i])
        /\ \/ ScoredBy(events[i], r)
           \/ AssistedBy(events[i], r) /\ AssisterKnown(events[i])}

\* C2: after an aggregation run, clutch_matches of every summary row is the
\* number of distinct fixture ids among the events contributing to the row.
C2_DistinctFixtures ==
    AfterRun =>
        \A r \in TableRows :
            r.clutch_matches = Cardinality({events[i].fixture_id : i \in ContributingTo(r)})

\* two qualifying goals of one player in one fixture gave one row with
\* clutch_matches 1, clutch_goal 2, clutch_score 6
C2_Witness ==
    /\ AfterRun
    /\ Len(events) = 2
    /\ events[1].fixture_id = events[2].fixture_id
    /\ \E r \in TableRows :
        /\ ContributingTo(r) = {1, 2}
        /\ r.clutch_matches = 1 /\ r.clutch_goal = 2 /\ r.clutch_score = 6

\* C3: every row an aggregation run writes to the table and to
\* clutch_summary.csv has clutch_score = clutch_goal * 3 + clutch_assist * 2.
C3_ScoreFormula ==
    AfterRun =>
        /\ \A r \in TableRows : r.clutch_score = r.clutch_goal * 3 + r.clutch_assist * 2
        /\ \A r \in Range(summary_csv) : r.Clutch_Score = r.Clutch_Goal * 3 + r.Clutch_Assist * 2

\* a player with a goal and an assist has score 5
C3_Witness ==
    /\ AfterRun
    /\ \E r \in TableRows : r.clutch_goal = 1 /\ r.clutch_assist = 1 /\ r.clutch_score = 5

\* C4: every row an aggregation run writes has clutch_matches >= 1, and its
\* score_per_match is the quotient clutch_score / clutch_matches with a
\* divisor that is not zero (score_per_match * clutch_matches = clutch_score).
C4_ScorePerMatch ==
    AfterRun =>
        \A r \in TableRows :
            /\ r.clutch_matches >= 1
            /\ r.score_per_match.den >= 1
            /\ r.score_per_match.num * r.clutch_matches = r.clutch_score * r.score_per_match.den

\* a row with score 5 over 2 matches: score_per_match is 5/2
C4_Witness ==
    /\ AfterRun
    /\ \E r \in TableRows :
        /\ r.clutch_matches = 2 /\ r.clutch_score = 5
        /\ r.score_per_match = [num |-> 5, den |-> 2]

\* C7: the rows an aggregation run writes are in non-increasing order of
\* clutch_score, in clutch_summary.csv and, in the same order, in the table.
C7_DescendingScore ==
    AfterRun =>
        /\ Len(clutch_summary) = Len(summary_csv)
        /\ \A i \in DOMAIN summary_csv :
            /\ clutch_summary[i].player_id = summary_csv[i].player_id
            /\ clutch_summary[i].team_id = summary_csv[i].team_id
            /\ clutch_summary[i].league_id = summary_csv[i].league_id
            /\ clutch_summary[i].year = summary_csv[i].year
            /\ clutch_summary[i].clutch_score = summary_csv[i].Clutch_Score
        /\ \A i \in 1..(Len(clutch_summary) - 1) :
            clutch_summary[i].clutch_score >= clutch_summary[i + 1].clutch_score

\* the scorer has the larger player id, so the groups came out of the groupby
\* with the assister (score 2) first, and the sort put the scorer (score 3) first
C7_Witness ==
    /\ AfterRun
    /\ Len(clutch_summary) = 2
    /\ clutch_summary[1].player_id > clutch_summary[2].player_id
    /\ clutch_summary[1].clutch_score = 3
    /\ clutch_summary[2].clutch_score = 2

\* C9: after an aggregation run, every qualifying goal has one summary row of
\* its scorer and, when its assister is known, one summary row of the assister,
\* under the goal's team, league and season; and in every summary row
\* clutch_goal is the number of qualifying goals the row's player scored and
\* clutch_assist the number of qualifying goals the player assisted, in the
\* row's team, league and season.
C9_GoalsAndAssists ==
    AfterRun =>
        /\ \A i \in DOMAIN events :
            Qualifying(events[i]) =>
                /\ Cardinality({r \in TableRows : ScoredBy(events[i], r)}) = 1
                /\ AssisterKnown(events[i]) =>
                       Cardinality({r \in TableRows : AssistedBy(events[i], r)}) = 1
        /\ Cardinality(TableRows) = Len(clutch_summary)
        /\ \A r \in TableRows :
            /\ r.clutch_goal =
                   Cardinality({i \in DOMAIN events :
                       Qualifying(events[i]) /\ ScoredBy(events[i], r)})
            /\ r.clutch_assist =
                   Cardinality({i \in DOMAIN events :
                       /\ Qualifying(events[i])
                       /\ AssisterKnown(events[i])
                       /\ AssistedBy(events[i], r)})

\* two qualifying goals, each assisted by the scorer of the other: two rows,
\* each with one goal and one assist
C9_Witness ==
    /\ AfterRun
    /\ Len(events) = 2
    /\ Qualifying(events[1]) /\ Qualifying(events[2])
    /\ events[1].assist_id = events[2].player_id
    /\ events[2].assist_id = events[1].player_id
    /\ events[1].player_id # events[2].player_id
    /\ Len(clutch_summary) = 2
    /\ \A r \in TableRows : r.clutch_goal = 1 /\ r.clutch_assist = 1

\* the row has no league id and its league name is not one of the five of
\* the lookup table
UnknownLeague(row) ==
    /\ row.league_id = NULL
    /\ row.league \notin {"Premier League", "La Liga", "Ligue 1", "Bundesliga", "Serie A"}

\* the first row of events_raw.csv with an unknown league, 0 when there is none
FirstUnknown ==
    IF \E j \in DOMAIN events_csv : UnknownLeague(events_csv[j])
    THEN CHOOSE j \in DOMAIN events_csv :
             /\ UnknownLeague(events_csv[j])
             /\ \A k \in 1..(j - 1) : ~UnknownLeague(events_csv[k])
    ELSE 0

\* C10: load_events never reads past a row with an unknown league and never
\* completes on a file that has one: at that row it ends with the error
\* 'Unknown league id', and no event of the file is in the events table
\* afterwards, neither the rows before it nor the rows after it.
C10_UnknownLeagueAborts ==
    FirstUnknown # 0 =>
        /\ pc = "load_events" => row_idx <= FirstUnknown
        /\ pc \notin {"load_summary", "init_done"}
        /\ pc = "init_failed" =>
               /\ error = "Unknown league id"
               /\ row_idx = FirstUnknown
               /\ events = <<>>
        /\ pc = "process_done" => events = <<>> /\ clutch_summary = <<>>

\* the load stopped at an unknown league in the first row, with a loadable
\* qualifying goal behind it that was not loaded
C10_Witness ==
    /\ pc = "init_failed"
    /\ error = "Unknown league id"
    /\ Len(events_csv) = 2
    /\ UnknownLeague(events_csv[1])
    /\ ~UnknownLeague(events_csv[2])
    /\ events = <<>>

-----------------------------------------------------------------------------
(* Name cleaning on stored names: one goal whose scorer's name is any string *)
(* of up to MaxNameLen characters                                            *)

NameAlphabet == {"7", " ", ".", "A"}

RawNames == SeqsUpTo(NameAlphabet, MaxNameLen)

InitNames ==
    /\ events_csv \in {<<[BaseRow EXCEPT !.player_name = n]>> : n \in RawNames}
    /\ summary_csv = <<>>
    /\ leagues = {}
    /\ teams = {}
    /\ players = {}
    /\ events = <<>>
    /\ clutch_summary = <<>>
    /\ pc = "start"
    /\ row_idx = 1
    /\ error = "none"
    /\ fetch = FetchIdle

SpecNames == InitNames /\ [][Next]_vars

\* C5: name cleaning is idempotent: cleaning a stored player name twice gives
\* what cleaning it once gives, and cleaning the player_name of a written
\* summary row again leaves it as it is.
C5_CleanIdempotent ==
    /\ \A p \in players : CleanName(CleanName(p.name)) = CleanName(p.name)
    /\ AfterRun => \A r \in TableRows : CleanName(r.player_name) = r.player_name

\* C6: no player_name of a summary row written by an aggregation run begins
\* with a digit.
C6_NoLeadingDigit ==
    AfterRun =>
        \A r \in TableRows :
            r.player_name = <<>> \/ Head(r.player_name) \notin {"7", "9"}

-----------------------------------------------------------------------------
(* fetch_clutch_data.py writes a new events_raw.csv between runs *)

\* the fixtures get_fixtures returns (one league and season of the loop have
\* fixtures)
ApiFixtures == 1..MaxFixtures

\* the events the API returns for a fixture, with the columns main adds
ApiEvents(f) ==
    CASE f % 3 = 1 ->
            <<[BaseRow EXCEPT !.fixture_id = f,
                              !.assist_id = 2, !.assist_name = NameOf(2)]>>
      [] f % 3 = 2 ->
            <<[BaseRow EXCEPT !.fixture_id = f,
                              !.player_id = 2, !.player_name = NameOf(2)],
              [BaseRow EXCEPT !.fixture_id = f, !.time_elapsed = ClutchMinute - 1]>>
      [] OTHER ->
            <<[BaseRow EXCEPT !.fixture_id = f, !.detail = "Penalty"]>>

\* all_events after the loop over fixtures 1..n, when get_events succeeded for
\* the fixtures in ok and raised for the others
RECURSIVE AllEvents(_, _)
AllEvents(n, ok) ==
    IF n = 0 THEN <<>>
    ELSE AllEvents(n - 1, ok) \o (IF n \in ok THEN ApiEvents(n) ELSE <<>>)

FetchedCsvs == {AllEvents(MaxFixtures, ok) : ok \in SUBSET ApiFixtures}

\* main (sequential path): the events of the fixtures that could be fetched
\* are written to events_raw.csv
FetchClutchDataMain ==
    /\ pc \in IdlePcs
    /\ \E ok \in SUBSET ApiFixtures : events_csv' = AllEvents(MaxFixtures, ok)
    /\ UNCHANGED <<fetch, summary_csv, leagues, teams, players, events, clutch_summary,
                   pc, row_idx, error>>

InitRefetch ==
    /\ events_csv \in FetchedCsvs
    /\ summary_csv \in SummaryCsvs
    /\ leagues = {}
    /\ teams = {}
    /\ players = {}
    /\ events = <<>>
    /\ clutch_summary = <<>>
    /\ pc = "start"
    /\ row_idx = 1
    /\ error = "none"
    /\ fetch = FetchIdle

NextRefetch ==
    \/ Next
    \/ FetchClutchDataMain

SpecRefetch == InitRefetch /\ [][NextRefetch]_vars

\* C8: after an aggregation run the table holds exactly the rows of this run,
\* computed from the events now in the events table, each once: no row of an
\* earlier run or of load_summary is left, and none is doubled.
C8_TableReplaced ==
    AfterRun =>
        /\ TableRows = RowsFrom(events)
        /\ Cardinality(TableRows) = Len(clutch_summary)
        /\ \A i, j \in DOMAIN clutch_summary :
            (/\ clutch_summary[i].player_id = clutch_summary[j].player_id
             /\ clutch_summary[i].team_id = clutch_summary[j].team_id
             /\ clutch_summary[i].league_id = clutch_summary[j].league_id
             /\ clutch_summary[i].year = clutch_summary[j].year) => i = j
        /\ \A r \in TableRows : ContributingTo(r) # {}

\* a run wrote two rows while events_raw.csv had already been replaced by a
\* file other than the one the events table was loaded from
C8_Witness ==
    /\ AfterRun
    /\ Len(clutch_summary) = 2
    /\ Len(events) = 1
    /\ Len(events_csv) = 3

-----------------------------------------------------------------------------
\* no row of events_raw.csv gives the scorer of e an identity: e has no
\* player id, or no row of the file carries that id together with a name,
\* as scorer or as assister
NoIdentity(e) ==
    \/ e.player_id = NULL
    \/ \A k \in DOMAIN events_csv :
        /\ ~(events_csv[k].player_id = e.player_id /\ events_csv[k].player_name # <<>>)
        /\ ~(events_csv[k].assist_id = e.player_id /\ events_csv[k].assist_name # <<>>)

\* C11: a goal of the clutch window whose scorer has no identity matches no
\* row of players and is skipped: after the aggregation run, which ends
\* without an error, the written rows are those the run would write without
\* that event, and every goal of the window with a known scorer has its row.
C11_UnresolvedScorerSkipped ==
    AfterRun =>
        /\ error = "none"
        /\ \A i \in DOMAIN events :
            (IsGoal(events[i]) /\ events[i].time_elapsed >= 76 /\ NoIdentity(events[i])) =>
                /\ ~ScorerKnown(events[i])
                /\ RowsFrom(EventsWithout(i)) = TableRows
                /\ \A r \in TableRows : i \notin ContributingTo(r)
                /\ \A j \in DOMAIN events :
                    Qualifying(events[j]) =>
                        \E r \in TableRows : ScoredBy(events[j], r) /\ r.clutch_goal >= 1

\* a goal of the window whose scorer has an id but no name anywhere, and a
\* goal with a known scorer: the run wrote the one row of the known scorer
C11_Witness ==
    /\ AfterRun
    /\ error = "none"
    /\ Len(events) = 2
    /\ IsGoal(events[1]) /\ events[1].time_elapsed >= 76
    /\ events[1].player_id # NULL /\ NoIdentity(events[1])
    /\ Qualifying(events[2])
    /\ Len(clutch_summary) = 1
    /\ ScoredBy(events[2], clutch_summary[1])

-----------------------------------------------------------------------------
(* fetch_clutch_data.py: main, step by step *)

\* date.today().year
CurrentYear == 2023

\* LEAGUES, in the order the dict is iterated
LEAGUES ==
    <<[id |-> 39, name |-> "Premier League"],
      [id |-> 140, name |-> "La Liga"],
      [id |-> 61, name |-> "Ligue 1"],
      [id |-> 78, name |-> "Bundesliga"],
      [id |-> 135, name |-> "Serie A"]>>

\* the u-th iteration of "for season in SEASONS: for league_id, league_name
\* in LEAGUES.items()"
UnitSeason(u) == CurrentYear - ((u - 1) \div Len(LEAGUES))

UnitLeague(u) == LEAGUES[((u - 1) % Len(LEAGUES)) + 1]

\* the fixture ids get_fixtures returns in the u-th iteration
FixturesOf(u) == [k \in 1..MaxFixtures |-> (u - 1) * MaxFixtures + k]

\* the events of fixture fid with the columns added in iteration u
\* (fixture_id, league, league_id, season; team_id and team_name from team)
TaggedEvents(u, fid) ==
    [k \in 1..Len(ApiEvents(fid)) |->
        [ApiEvents(fid)[k] EXCEPT !.fixture_id = fid,
                                  !.league = UnitLeague(u).name,
                                  !.league_id = UnitLeague(u).id,
                                  !.season = UnitSeason(u)]]

\* a faulty variant of ExceptHandler: the exception of get_events leaves main
Propagate(st, fid) == [st EXCEPT !.pc = "aborted", !.error = "get_events"]

\* lines 147-148: except Exception: print("Failed for fixture ..."); the for
\* loop goes on with the next fixture
ExceptHandler(st, fid) ==
    [st EXCEPT !.failed = @ \cup {fid}, !.idx = @ + 1]

\* python fetch_clutch_data.py [--async]
FetchStart ==
    /\ fetch.pc = "idle"
    /\ \E a \in BOOLEAN :
        fetch' = [fetch EXCEPT !.pc = "get_fixtures", !.use_async = a, !.unit = 1]
    /\ UNCHANGED <<events_csv, summary_csv, leagues, teams, players, events,
                   clutch_summary, pc, row_idx, error>>

\* line 122: get_fixtures is called outside any try: when the request fails
\* the exception leaves main.  Otherwise the sequential loop starts, or
\* fetch_events_async creates one task per fixture.
GetFixtures ==
    /\ fetch.pc = "get_fixtures"
    /\ \E ok \in BOOLEAN :
        fetch' =
            IF ~ok
            THEN [fetch EXCEPT !.pc = "aborted", !.error = "get_fixtures"]
            ELSE IF fetch.use_async
            THEN [fetch EXCEPT !.pc = "async",
                               !.fixture_ids = FixturesOf(fetch.unit),
                               !.events = <<>>,
                               !.tasks = [f \in Range(FixturesOf(fetch.unit)) |->
                                             "pending"]]
            ELSE [fetch EXCEPT !.pc = "seq",
                               !.fixture_ids = FixturesOf(fetch.unit),
                               !.idx = 1]
    /\ UNCHANGED <<events_csv, summary_csv, leagues, teams, players, events,
                   clutch_summary, pc, row_idx, error>>

\* lines 131-148, the try block for the fixture at idx.  get_events returns
\* the events, which are appended to all_events, or, when its last attempt
\* has failed too (the retry of lines 66-70 re-raises), raises into the
\* except clause.
SeqGetEvents ==
    /\ fetch.pc = "seq"
    /\ fetch.idx <= Len(fetch.fixture_ids)
    /\ LET fid == fetch.fixture_ids[fetch.idx]
       IN  \E ok \in BOOLEAN :
            fetch' =
                IF ok
                THEN [fetch EXCEPT !.all_events = @ \o TaggedEvents(fetch.unit, fid),
                                   !.idx = @ + 1]
                ELSE ExceptHandler(fetch, fid)
    /\ UNCHANGED <<events_csv, summary_csv, leagues, teams, players, events,
                   clutch_summary, pc, row_idx, error>>

\* the state of main when the fixtures of iteration u are done: the next
\* iteration, or the lines after the loops
AfterUnit(st) ==
    [st EXCEPT !.pc = IF st.unit < MaxUnits THEN "get_fixtures" ELSE "write",
               !.unit = IF st.unit < MaxUnits THEN @ + 1 ELSE @,
               !.fixture_ids = <<>>,
               !.idx = 0,
               !.tasks = <<>>,
               !.events = <<>>]

\* the for loop over fixture_ids ends
SeqNextUnit ==
    /\ fetch.pc = "seq"
    /\ fetch.idx > Len(fetch.fixture_ids)
    /\ fetch' = AfterUnit(fetch)
    /\ UNCHANGED <<events_csv, summary_csv, leagues, teams, players, events,
                   clutch_summary, pc, row_idx, error>>

\* lines 83-106, the task _get(fid) ends; the tasks run concurrently, so any
\* pending task may be the next to end.  It ends with its events appended to
\* events (no await in the for loop: the appends of one task are not
\* interleaved), or, when its last attempt has failed too, with the exception
\* as its result.  The semaphore limits how many requests are open at once
\* and plays no part in which requests succeed.
AsyncGet ==
    /\ fetch.pc = "async"
    /\ \E fid \in DOMAIN fetch.tasks :
        /\ fetch.tasks[fid] = "pending"
        /\ \E ok \in BOOLEAN :
            fetch' =
                IF ok
                THEN [fetch EXCEPT !.events = @ \o TaggedEvents(fetch.unit, fid),
                                   !.tasks[fid] = "done"]
                ELSE [fetch EXCEPT !.tasks[fid] = "raised"]
    /\ UNCHANGED <<events_csv, summary_csv, leagues, teams, players, events,
                   clutch_summary, pc, row_idx, error>>

\* lines 109-114 and 126-129: gather(return_exceptions=True) returns when
\* every task has ended; the raised ones are printed as failed; the events
\* collected are returned and main extends all_events with them
AsyncGather ==
    /\ fetch.pc = "async"
    /\ \A fid \in DOMAIN fetch.tasks : fetch.tasks[fid] # "pending"
    /\ fetch' =
           AfterUnit([fetch EXCEPT
               !.failed = @ \cup {fid \in DOMAIN fetch.tasks : fetch.tasks[fid] = "raised"},
               !.all_events = @ \o fetch.events])
    /\ UNCHANGED <<events_csv, summary_csv, leagues, teams, players, events,
                   clutch_summary, pc, row_idx, error>>

\* lines 152-153: json_normalize(all_events).to_csv("events_raw.csv")
WriteEventsCsv ==
    /\ fetch.pc = "write"
    /\ events_csv' = fetch.all_events
    /\ fetch' = [fetch EXCEPT !.pc = "done"]
    /\ UNCHANGED <<summary_csv, leagues, teams, players, events,
                   clutch_summary, pc, row_idx, error>>

InitFetch ==
    /\ events_csv = <<>>
    /\ summary_csv = <<>>
    /\ leagues = {}
    /\ teams = {}
    /\ players = {}
    /\ events = <<>>
    /\ clutch_summary = <<>>
    /\ pc = "start"
    /\ row_idx = 1
    /\ error = "none"
    /\ fetch = FetchIdle

NextFetch ==
    \/ FetchStart
    \/ GetFixtures
    \/ SeqGetEvents
    \/ SeqNextUnit
    \/ AsyncGet
    \/ AsyncGather
    \/ WriteEventsCsv

\* every request returns or raises, and main runs on: a step that is possible
\* is taken
SpecFetch == InitFetch /\ [][NextFetch]_vars /\ WF_vars(NextFetch)

-----------------------------------------------------------------------------
\* the (iteration, fixture) pairs of the loops
FetchUnits == {<<u, FixturesOf(u)[k]>> : u \in 1..MaxUnits, k \in 1..MaxFixtures}

\* the rows of fixture fid in a list of events, in the order of the list
RowsOfFixture(list, fid) == SelectSeq(list, LAMBDA e : e.fixture_id = fid)

\* the events main holds so far
HeldEvents == fetch.all_events \o fetch.events

\* what holds at every point of a run of fetch_clutch_data.main
FetchInvariant ==
    /\ fetch.pc = "aborted" => fetch.error = "get_fixtures" /\ events_csv = <<>>
    /\ \A uf \in FetchUnits :
        /\ uf[2] \in fetch.failed => RowsOfFixture(HeldEvents, uf[2]) = <<>>
        /\ RowsOfFixture(HeldEvents, uf[2]) \in {<<>>, TaggedEvents(uf[1], uf[2])}
    /\ \A e \in Range(HeldEvents) : \E uf \in FetchUnits : e.fixture_id = uf[2]
    /\ fetch.pc = "seq" =>
           \A k \in 1..(fetch.idx - 1) :
               \/ fetch.fixture_ids[k] \in fetch.failed
               \/ RowsOfFixture(HeldEvents, fetch.fixture_ids[k]) =
                      TaggedEvents(fetch.unit, fetch.fixture_ids[k])
    /\ fetch.pc \in {"write", "done"} =>
           \A uf \in FetchUnits :
               \/ uf[2] \in fetch.failed
               \/ RowsOfFixture(HeldEvents, uf[2]) = TaggedEvents(uf[1], uf[2])
    /\ fetch.pc = "done" => events_csv = fetch.all_events

\* C12: in a run of fetch_clutch_data.main, sequential or --async, the
\* failure of the events request of a fixture (its retries included) never ends
\* the run: the fixture is reported as failed, the events of every fixture
\* whose request succeeded are held once, under their league and season, the
\* loops go on over the remaining fixtures, leagues and seasons, and the run
\* ends with events_raw.csv written from the held events; the only other end
\* of a run is a failed get_fixtures request.
C12_FixtureFailureCaught ==
    /\ []FetchInvariant
    /\ <>(fetch.pc = "done" \/ (fetch.pc = "aborted" /\ fetch.error = "get_fixtures"))

\* an --async run ended with events_raw.csv written: the first fixture of the
\* first league failed, the fixture after it and a fixture of the next league
\* are in the file
C12_Witness ==
    /\ fetch.pc = "done"
    /\ fetch.use_async
    /\ FixturesOf(1)[1] \in fetch.failed
    /\ RowsOfFixture(events_csv, FixturesOf(1)[2]) = TaggedEvents(1, FixturesOf(1)[2])
    /\ RowsOfFixture(events_csv, FixturesOf(2)[1]) = TaggedEvents(2, FixturesOf(2)[1])

====
